---------------------------- MODULE Spec2Model ----------------------------
(***************************************************************************)
(* A model of the marketscreener pipeline: the fundamentals screener       *)
(* (src/screener.py), the technical enrichment (src/technicals.py) and the *)
(* analysis cycle that drives them (src/main.py).                          *)
(*                                                                         *)
(* Python floats are modelled as integer multiples of 1/Unit, plus the     *)
(* float NaN; Python's None is a value of its own.  Tickers are natural    *)
(* numbers (abstract symbols, already in the data provider's convention).  *)
(***************************************************************************)
EXTENDS Integers, Sequences, FiniteSets, TLC

VARIABLES
    mode,        \* which entry point this behaviour exercises
    pc,          \* position of the driver (the single awaiting coroutine)
    fstock,      \* _passes_filters: the ScreenedStock under evaluation
    fverdict,    \* _passes_filters: its return value ("unset" before the call)
    debugMode,   \* config.DEBUG_MODE
    debugLog,    \* _debug_stock_eval: the ok flag logged for each check
    items,       \* _split_batches: the symbol sequence handed in
    split,       \* _split_batches: the batches returned
    wiki,        \* the listing page (primary source) as the resolver finds it
    datahub,     \* the CSV feed (secondary source) as the resolver finds it
    limit,       \* screen_stocks: the caller's limit (None or an int)
    queried,     \* the sources requested so far, in order
    tickers,     \* screen_stocks: the resolved universe
    subset,      \* _screen: the symbols of the pass that is running or ran last
    passLog,     \* the finished passes: the symbols screened and how many passed
    tasks,       \* _screen: per batch, the state of its _fetch_batch call
    completed,   \* the batches that returned and are not merged yet, oldest first
    merged,      \* how many batch results the driver has merged in this pass
    screened,    \* _screen: the accumulated results of the pass
    screenOut,   \* what screen_stocks did: pending, raised, or returned a list
    given,       \* enrich_with_technicals: the list as the caller handed it in
    fundamentals, \* enrich_with_technicals: the caller's list as it is now
    techTasks,   \* per record, the state of its _fetch_from_tradingview call
    enrichOut,   \* what enrich_with_technicals did: pending or returned a list
    histFile,    \* history.json (config.STATE_FILE)
    reportFile,  \* today's report in config.REPORTS_DIR
    log,         \* the steps run_analysis_cycle has taken, in order
    cycleOut,    \* what run_analysis_cycle did: pending, raised or returned
    atStart,     \* the history and report files as the cycle found them
    dinfo,       \* _compute_debt_to_assets: the info record handed in
    dsheet,      \* _compute_debt_to_assets: ticker_obj.balance_sheet
    dratio,      \* _compute_debt_to_assets: its return value ("unset" before)
    symbolDiff,  \* run_analysis_cycle: new_symbols and dropped_symbols
    report_markdown \* run_analysis_cycle: the text generate_report returned

filterVars == <<fstock, fverdict, debugMode, debugLog>>
debtVars == <<dinfo, dsheet, dratio>>
splitVars == <<items, split>>
envVars == <<wiki, datahub, limit>>
screenVars == <<queried, tickers, subset, passLog, tasks, completed, merged,
                screened, screenOut>>

enrichVars == <<given, fundamentals, techTasks, enrichOut>>
cycleVars == <<histFile, reportFile, log, cycleOut, atStart, symbolDiff,
               report_markdown>>

vars == <<mode, pc, filterVars, debtVars, splitVars, envVars, screenVars, enrichVars,
          cycleVars>>

---------------------------------------------------------------------------
(* Values: None, NaN and numbers in units of 1/Unit.                       *)

\* Python floats are represented as integer multiples of 1/Unit (halves).
Unit == 2

None == [k |-> "None"]
NaN == [k |-> "nan"]
Num(v) == [k |-> "num", v |-> v]

IsNone(x) == x.k = "None"
IsNum(x) == x.k = "num"

\* Python truthiness of an Optional[float]: None and 0 are falsy, NaN is truthy.
Str(s) == [k |-> "str", s |-> s]
Truthy(x) == /\ ~IsNone(x)
             /\ (IsNum(x) => x.v # 0)
             /\ (x.k = "str" => x.s # "")
             /\ (x.k = "int" => x.v # 0)

\* A Python int (the caller's limit).
IntV(n) == [k |-> "int", v |-> n]

\* Float division; the operands used are such that the quotient is a multiple
\* of 1/Unit.  NaN propagates.
FDiv(a, b) == IF IsNum(a) /\ IsNum(b) THEN Num((a.v * Unit) \div b.v) ELSE NaN

\* Float comparisons: every comparison with NaN is false.
FLt(a, b) == IsNum(a) /\ IsNum(b) /\ a.v < b.v
FLe(a, b) == IsNum(a) /\ IsNum(b) /\ a.v <= b.v
FGt(a, b) == FLt(b, a)
FGe(a, b) == FLe(b, a)

\* Python's `a or b`.
PyOr(a, b) == IF Truthy(a) THEN a ELSE b

---------------------------------------------------------------------------
(* config.py: the screening constraints.                                   *)

PRICE_MIN == 10
PRICE_MAX == 100
PE_MAX == 15
PB_MAX == 2
\* 1.5, in units of 1/Unit
CURRENT_RATIO_MIN == 3
DEBT_TO_ASSETS_MAX == 1

\* A whole number of the configuration as a float.
Whole(n) == Num(n * Unit)

---------------------------------------------------------------------------
(* screener.py: ScreenedStock and the Filter Evaluator.                    *)

ScreenedStock(ticker, name, sector, price, pe, pb, cr, da, market_cap, beta) ==
    [ticker |-> ticker, name |-> name, sector |-> sector, price |-> price,
     trailing_pe |-> pe, price_to_book |-> pb, current_ratio |-> cr,
     debt_to_assets |-> da, market_cap |-> market_cap, beta |-> beta]

\* dataclasses.asdict: the plain key-value record of a ScreenedStock.
to_dict(stock) ==
    [f \in {"ticker", "name", "sector", "price", "trailing_pe", "price_to_book",
            "current_ratio", "debt_to_assets", "market_cap", "beta"} |-> stock[f]]

\* `0 < x <= hi`
InOpenClosed(x, hi) == FLt(Num(0), x) /\ FLe(x, hi)

\* `lo <= x <= hi`
InClosed(lo, x, hi) == FLe(lo, x) /\ FLe(x, hi)

\* `x < lo`
BelowMin(x, lo) == FLt(x, lo)

\* `x > hi`
AboveMax(x, hi) == FGt(x, hi)

_passes_filters(stock) ==
    IF IsNone(stock.trailing_pe) \/ ~InOpenClosed(stock.trailing_pe, Whole(PE_MAX))
      THEN FALSE
    ELSE IF IsNone(stock.price_to_book)
              \/ ~InOpenClosed(stock.price_to_book, Whole(PB_MAX))
      THEN FALSE
    ELSE IF IsNone(stock.current_ratio)
              \/ BelowMin(stock.current_ratio, Num(CURRENT_RATIO_MIN))
      THEN FALSE
    ELSE IF IsNone(stock.debt_to_assets)
              \/ AboveMax(stock.debt_to_assets, Whole(DEBT_TO_ASSETS_MAX))
      THEN FALSE
    ELSE IF IsNone(stock.price)
              \/ ~InClosed(Whole(PRICE_MIN), stock.price, Whole(PRICE_MAX))
      THEN FALSE
    ELSE TRUE

\* The ok flag _debug_stock_eval logs for each of its five checks.
_debug_stock_eval(stock) ==
    [price |-> ~IsNone(stock.price)
                 /\ InClosed(Whole(PRICE_MIN), stock.price, Whole(PRICE_MAX)),
     pe |-> ~IsNone(stock.trailing_pe)
              /\ InOpenClosed(stock.trailing_pe, Whole(PE_MAX)),
     pb |-> ~IsNone(stock.price_to_book)
              /\ InOpenClosed(stock.price_to_book, Whole(PB_MAX)),
     current_ratio |-> ~IsNone(stock.current_ratio)
                         /\ FGe(stock.current_ratio, Num(CURRENT_RATIO_MIN)),
     debt_to_assets |-> ~IsNone(stock.debt_to_assets)
                          /\ FLe(stock.debt_to_assets, Whole(DEBT_TO_ASSETS_MAX))]

---------------------------------------------------------------------------
(* screener.py: the Batch Orchestrator's partition.                        *)

MAX_WORKERS == 8
BATCH_SIZE == 25

BatchFullOffByOne(batch, size) == Len(batch) > size
\* `len(batch) >= size`
BatchFull(batch, size) == Len(batch) >= size

RECURSIVE SplitLoop(_, _, _, _, _)
\* The for loop of _split_batches from the i-th item on, and what follows it.
SplitLoop(symbols, i, size, batch, batches) ==
    IF i > Len(symbols)
      THEN IF batch # <<>> THEN Append(batches, batch) ELSE batches
      ELSE LET grown == Append(batch, symbols[i])
           IN  IF BatchFull(grown, size)
                 THEN SplitLoop(symbols, i + 1, size, <<>>, Append(batches, grown))
                 ELSE SplitLoop(symbols, i + 1, size, grown, batches)

_split_batches(symbols, size) == SplitLoop(symbols, 1, size, <<>>, <<>>)

---------------------------------------------------------------------------
(* screener.py: the Fundamental Metric Fetcher's derivations.              *)

\* A balance-sheet line item that is not in the sheet (KeyError).
Missing == [k |-> "missing"]
\* ticker_obj.balance_sheet: None or empty has no usable line item.
NoSheet == [usable |-> FALSE]
Sheet(tca, tcl, ta, td) ==
    [usable |-> TRUE, current_assets |-> tca, current_liabilities |-> tcl,
     total_assets |-> ta, total_debt |-> td]

\* `_get_value(label)` of _compute_current_ratio.
GetValue(item) == IF item = Missing THEN None ELSE item

_compute_current_ratio(sheet, fallback) ==
    IF Truthy(fallback) THEN fallback
    ELSE IF ~sheet.usable THEN None
    ELSE LET current_assets == GetValue(sheet.current_assets)
             current_liabilities == GetValue(sheet.current_liabilities)
         IN  IF Truthy(current_assets) /\ Truthy(current_liabilities)
               THEN IF current_liabilities = Num(0)
                      THEN None
                      ELSE FDiv(current_assets, current_liabilities)
               ELSE None

\* A falsy operand is replaced by the sheet's line item when the sheet is
\* usable: by None when the label is missing, and kept when there is no sheet.
SheetFallback(value, sheet, item) ==
    IF Truthy(value) THEN value
    ELSE IF ~sheet.usable THEN value
    ELSE IF item = Missing THEN None
    ELSE item

_compute_debt_to_assets(info, sheet) ==
    LET total_assets == SheetFallback(info.totalAssets, sheet,
                                      IF sheet.usable THEN sheet.total_assets ELSE Missing)
        total_debt == SheetFallback(info.totalDebt, sheet,
                                    IF sheet.usable THEN sheet.total_debt ELSE Missing)
    IN  IF IsNone(total_debt) \/ IsNone(total_assets) \/ total_assets = Num(0)
          THEN None
          ELSE FDiv(total_debt, total_assets)

_price_from_info(info) ==
    IF Truthy(info.currentPrice) THEN info.currentPrice
    ELSE IF Truthy(info.regularMarketPrice) THEN info.regularMarketPrice
    ELSE IF Truthy(info.previousClose) THEN info.previousClose
    ELSE None

\* `float(x) if x else None`
FloatOrNone(x) == IF Truthy(x) THEN x ELSE None

\* The ScreenedStock that _fetch_single builds from the provider's answer.
BuildStock(symbol, info, sheet) ==
    ScreenedStock(symbol, PyOr(info.shortName, info.longName), info.sector,
                  _price_from_info(info), FloatOrNone(info.trailingPE),
                  FloatOrNone(info.priceToBook),
                  _compute_current_ratio(sheet, info.currentRatio),
                  _compute_debt_to_assets(info, sheet), info.marketCap, info.beta)

\* The body of _fetch_single on an attempt that does not raise.
FetchReturn(symbol, info, sheet) ==
    LET stock == BuildStock(symbol, info, sheet)
    IN  IF _passes_filters(stock) THEN stock ELSE None

---------------------------------------------------------------------------
(* The market-data provider: what yf.Ticker(symbol) answers.               *)

InfoRec(cp, rmp, pcl, pe, pb, cr, td, ta, short, long, sector, mcap, beta) ==
    [currentPrice |-> cp, regularMarketPrice |-> rmp, previousClose |-> pcl,
     trailingPE |-> pe, priceToBook |-> pb, currentRatio |-> cr,
     totalDebt |-> td, totalAssets |-> ta, shortName |-> short,
     longName |-> long, sector |-> sector, marketCap |-> mcap, beta |-> beta]

\* `ticker_obj.info or {}` when the provider has nothing: every key is missing.
EmptyInfo ==
    InfoRec(None, None, None, None, None, None, None, None, None, None, None,
            None, None)

\* The provider's info record of each ticker.
\*  1: every metric inside its range, price 50
\*  2: every metric on the inclusive bound of its range, price 10
\*  3: price 100, current ratio and debt-to-assets from the balance sheet
\*  4: price-to-book 2.5, the rest as ticker 1
\*  5: price 50, current assets NaN in the balance sheet
\*  6: nothing
\*  7: price 20 from previousClose
\*  8: trailing P/E 0
Info(symbol) ==
    CASE symbol = 1 ->
           InfoRec(Num(100), None, None, Num(20), Num(2), Num(4), Num(100),
                   Num(200), Str("AAA"), None, Str("Tech"), Num(1000), Num(2))
      [] symbol = 2 ->
           InfoRec(None, Num(20), Num(22), Num(30), Num(4), Num(3), Num(200),
                   Num(200), None, Str("Bee Inc"), None, None, None)
      [] symbol = 3 ->
           InfoRec(Num(200), None, None, Num(2), Num(1), None, None, Num(0),
                   Str("Cee"), Str("Cee Corp"), Str("Energy"), Num(500), Num(3))
      [] symbol = 4 ->
           InfoRec(Num(100), None, None, Num(20), Num(5), Num(4), Num(100),
                   Num(200), Str("BBB"), None, Str("Tech"), Num(1000), Num(2))
      [] symbol = 5 ->
           InfoRec(Num(100), None, None, Num(20), Num(2), None, Num(100),
                   Num(200), Str("Eee"), None, None, None, None)
      [] symbol = 7 ->
           InfoRec(Num(0), None, Num(40), Num(10), Num(3), Num(6), Num(0),
                   Num(200), Str(""), Str("Gee"), Str("Retail"), None, Num(1))
      [] symbol = 8 ->
           InfoRec(Num(100), None, None, Num(0), Num(2), Num(4), Num(100),
                   Num(200), Str("Hhh"), None, None, None, None)
      [] OTHER -> EmptyInfo

\* The provider's balance sheet of each ticker.
BalanceSheet(symbol) ==
    CASE symbol = 3 -> Sheet(Num(300), Num(200), Num(400), Num(200))
      [] symbol = 5 -> Sheet(NaN, Num(200), Num(400), Num(200))
      [] symbol = 7 -> Sheet(Missing, Missing, Num(400), Missing)
      [] OTHER -> NoSheet

\* The tickers for which a provider request may raise (network errors,
\* timeouts); a request for any ticker may also answer.
FlakyTickers == {2, 6}
MayRaise(symbol) == symbol \in FlakyTickers

\* stop_after_attempt(3)
MaxAttempts == 3

StopAfterFourth(attempt_number) == attempt_number > MaxAttempts
\* tenacity's stop condition after the attempt numbered `attempt_number` raised.
StopAfterAttempt(attempt_number) == attempt_number >= MaxAttempts

---------------------------------------------------------------------------
(* screener.py: the Ticker Source Resolver.  A source is unreachable, or   *)
(* answers with cells: the first cell of each table row (the Symbol value  *)
(* of each CSV row), 0 standing for a row that has none.  Either source   *)
(* may also answer with a text its parser raises on.                       *)

Unreachable == [kind |-> "unreachable"]
NoTable == [kind |-> "notable"]
\* A feed on which csv.DictReader raises csv.Error (a field larger than the
\* field size limit, a NUL byte).
Unparseable == [kind |-> "unparseable"]
\* A listing page on which BeautifulSoup raises ParserRejectedMarkup (markup
\* html.parser gives up on, such as a marked section of unknown keyword).
Rejected == [kind |-> "rejected"]
Page(cells) == [kind |-> "page", cells |-> cells]

\* The non-empty cells, in order.
Symbols(cells) == SelectSeq(cells, LAMBDA c : c # 0)

\* The request is inside the try (a RequestException returns []); the page
\* is parsed outside it, so the parser's error leaves the function.
_load_tickers_from_wikipedia(source) ==
    IF source.kind = "unreachable" THEN [st |-> "returned", value |-> <<>>]
    ELSE IF source.kind = "rejected"
      THEN [st |-> "raised", error |-> "ParserRejectedMarkup"]
    ELSE IF source.kind = "notable" THEN [st |-> "returned", value |-> <<>>]
    ELSE [st |-> "returned", value |-> Symbols(source.cells)]

\* The request is inside the try (a RequestException returns []); the CSV
\* is read outside it, so the reader's csv.Error leaves the function.
_load_tickers_from_datahub(source) ==
    IF source.kind = "unreachable" THEN [st |-> "returned", value |-> <<>>]
    ELSE IF source.kind = "unparseable" THEN [st |-> "raised", error |-> "csv.Error"]
    ELSE [st |-> "returned", value |-> Symbols(source.cells)]

\* `if tickers: return tickers`
UsePrimary(primary) == primary # <<>>

\* What the resolver did (returned the universe, or raised a loader's
\* error), and the sources requested on the way.
_load_sp500_tickers(primary, secondary) ==
    LET found == _load_tickers_from_wikipedia(primary)
        fallback == _load_tickers_from_datahub(secondary)
    IN  IF found.st = "raised"
          THEN [st |-> "raised", error |-> found.error,
                queried |-> <<"wikipedia">>]
          ELSE IF UsePrimary(found.value)
          THEN [st |-> "returned", tickers |-> found.value,
                queried |-> <<"wikipedia">>]
          ELSE IF fallback.st = "raised"
            THEN [st |-> "raised", error |-> fallback.error,
                  queried |-> <<"wikipedia", "datahub">>]
            ELSE [st |-> "returned", tickers |-> fallback.value,
                  queried |-> <<"wikipedia", "datahub">>]

---------------------------------------------------------------------------
(* screener.py: screen_stocks and its passes.                              *)

Min(a, b) == IF a < b THEN a ELSE b
Max(a, b) == IF a > b THEN a ELSE b

\* Python's seq[:n]
SliceTo(seq, n) ==
    IF n >= 0 THEN SubSeq(seq, 1, Min(n, Len(seq)))
    ELSE SubSeq(seq, 1, Max(Len(seq) + n, 0))

\* `tickers[:limit] if limit else tickers`
LimitedSubset(all, lim) == IF Truthy(lim) THEN SliceTo(all, lim.v) ELSE all

NeedsRetryWithoutLimit(found, lim) == found = <<>>
\* `not screened and limit`
NeedsRetry(found, lim) == found = <<>> /\ Truthy(lim)

\* `s.price or 0`
SortKey(stock) == PyOr(stock.price, Num(0))

GoesBeforeAscending(stock, other) == FLt(SortKey(stock), SortKey(other))
\* Whether `stock` goes before `other` when it is met after it: list.sort with
\* reverse=True is stable, so only a strictly greater key moves ahead.
GoesBefore(stock, other) == FGt(SortKey(stock), SortKey(other))

\* `sorted` grown by `stock`, met after all of its elements.
InsertSorted(sorted, stock) ==
    LET ahead == {j \in 1..Len(sorted) : GoesBefore(stock, sorted[j])}
        at == IF ahead = {} THEN Len(sorted) + 1
              ELSE CHOOSE j \in ahead : \A m \in ahead : j <= m
    IN  SubSeq(sorted, 1, at - 1) \o <<stock>> \o SubSeq(sorted, at, Len(sorted))

RECURSIVE SortFrom(_, _, _)
SortFrom(seq, i, sorted) ==
    IF i > Len(seq) THEN sorted
    ELSE SortFrom(seq, i + 1, InsertSorted(sorted, seq[i]))

\* `screened.sort(key=lambda s: (s.price or 0), reverse=True)`
SortByPrice(seq) == SortFrom(seq, 1, <<>>)

\* A _fetch_batch call handed to the executor.
\*   done    : how many symbols of the batch the loop is through with
\*   trace   : the outcome of each attempt of the _fetch_single call that is
\*             running, or that ran last
\*   calling : whether that call is still running (it raised and will retry)
\*   skipped : the positions whose call raised out of its retries
NewTask(symbols) ==
    [symbols |-> symbols, st |-> "queued", done |-> 0, trace |-> <<>>,
     calling |-> FALSE, results |-> <<>>, skipped |-> {}]

Running == {b \in DOMAIN tasks : tasks[b].st = "running"}

ScreenIdle ==
    /\ queried = <<>>
    /\ tickers = <<>>
    /\ subset = <<>>
    /\ passLog = <<>>
    /\ tasks = <<>>
    /\ completed = <<>>
    /\ merged = 0
    /\ screened = <<>>
    /\ screenOut = [st |-> "pending"]

\* screen_stocks up to its first pass: the universe is resolved; an error of
\* the resolver leaves screen_stocks, and an empty universe raises
\* RuntimeError.
LoadTickers ==
    /\ pc = "load_tickers"
    /\ LET got == _load_sp500_tickers(wiki, datahub)
       IN  /\ queried' = queried \o got.queried
           /\ IF got.st = "raised"
                THEN /\ tickers' = tickers
                     /\ screenOut' = [st |-> "raised", error |-> got.error]
                     /\ pc' = "screen_raised"
                ELSE IF got.tickers = <<>>
                  THEN /\ tickers' = got.tickers
                       /\ screenOut' = [st |-> "raised", error |-> "RuntimeError"]
                       /\ pc' = "screen_raised"
                  ELSE /\ tickers' = got.tickers
                       /\ screenOut' = screenOut
                       /\ pc' = "start_pass"
    /\ UNCHANGED <<mode, filterVars, debtVars, splitVars, envVars, subset, passLog, tasks,
                   completed, merged, screened, enrichVars, cycleVars>>

\* _screen up to its first await: the symbols are split into batches and every
\* batch is handed to the executor.  The first pass takes the limited subset,
\* the second the whole universe.
StartPass ==
    /\ pc = "start_pass"
    /\ LET symbols == IF passLog = <<>> THEN LimitedSubset(tickers, limit)
                      ELSE tickers
           batches == _split_batches(symbols, BATCH_SIZE)
       IN  /\ subset' = symbols
           /\ tasks' = [b \in 1..Len(batches) |-> NewTask(batches[b])]
    /\ completed' = <<>>
    /\ merged' = 0
    /\ screened' = <<>>
    /\ pc' = "await_batches"
    /\ UNCHANGED <<mode, filterVars, debtVars, splitVars, envVars, queried, tickers,
                   passLog, screenOut, enrichVars, cycleVars>>

\* A worker thread of the pool takes the oldest queued batch.
StartBatch(b) ==
    /\ pc = "await_batches"
    /\ tasks[b].st = "queued"
    /\ \A o \in DOMAIN tasks : o < b => tasks[o].st # "queued"
    /\ Cardinality(Running) < MAX_WORKERS
    /\ tasks' = [tasks EXCEPT ![b].st = "running"]
    /\ UNCHANGED <<mode, pc, filterVars, debtVars, splitVars, envVars, queried, tickers,
                   subset, passLog, completed, merged, screened, screenOut,
                   enrichVars, cycleVars>>

\* One attempt of _fetch_single on the batch's next symbol returns: the stock
\* is appended when the filter accepted it, and the loop moves on.
AttemptReturns(b) ==
    /\ pc = "await_batches"
    /\ tasks[b].st = "running"
    /\ tasks[b].done < Len(tasks[b].symbols)
    /\ LET t == tasks[b]
           symbol == t.symbols[t.done + 1]
           before == IF t.calling THEN t.trace ELSE <<>>
           stock == FetchReturn(symbol, Info(symbol), BalanceSheet(symbol))
       IN  tasks' = [tasks EXCEPT ![b] =
                       [t EXCEPT !.done = t.done + 1,
                                 !.calling = FALSE,
                                 !.trace = Append(before, IF stock # None
                                                            THEN "accepted"
                                                            ELSE "rejected"),
                                 !.results = IF stock # None
                                               THEN Append(t.results, stock)
                                               ELSE t.results]]
    /\ UNCHANGED <<mode, pc, filterVars, debtVars, splitVars, envVars, queried, tickers,
                   subset, passLog, completed, merged, screened, screenOut,
                   enrichVars, cycleVars>>

ExhaustedAborts(t, trace) ==
    [t EXCEPT !.done = Len(t.symbols), !.calling = FALSE, !.trace = trace,
              !.skipped = t.skipped \cup {t.done + 1}]

\* `except Exception`: the symbol whose call raised out of its retries is
\* logged and the loop goes on to the next one.
Exhausted(t, trace) ==
    [t EXCEPT !.done = t.done + 1, !.calling = FALSE, !.trace = trace,
              !.skipped = t.skipped \cup {t.done + 1}]

\* One attempt of _fetch_single on the batch's next symbol raises: it is tried
\* again unless the stop condition holds, and then the error reaches
\* _fetch_batch, which logs it and moves on.
AttemptRaises(b) ==
    /\ pc = "await_batches"
    /\ tasks[b].st = "running"
    /\ tasks[b].done < Len(tasks[b].symbols)
    /\ MayRaise(tasks[b].symbols[tasks[b].done + 1])
    /\ LET t == tasks[b]
           before == IF t.calling THEN t.trace ELSE <<>>
           now == Append(before, "raised")
       IN  tasks' = [tasks EXCEPT ![b] =
                       IF StopAfterAttempt(Len(now))
                         THEN Exhausted(t, now)
                         ELSE [t EXCEPT !.calling = TRUE, !.trace = now]]
    /\ UNCHANGED <<mode, pc, filterVars, debtVars, splitVars, envVars, queried, tickers,
                   subset, passLog, completed, merged, screened, screenOut,
                   enrichVars, cycleVars>>

\* _fetch_batch returns its results: the batch's future completes.
BatchReturns(b) ==
    /\ pc = "await_batches"
    /\ tasks[b].st = "running"
    /\ tasks[b].done = Len(tasks[b].symbols)
    /\ tasks' = [tasks EXCEPT ![b].st = "done"]
    /\ completed' = Append(completed, b)
    /\ UNCHANGED <<mode, pc, filterVars, debtVars, splitVars, envVars, queried, tickers,
                   subset, passLog, merged, screened, screenOut, enrichVars,
                   cycleVars>>

\* The driver takes the next completed future and extends `screened` by it.
MergeBatch ==
    /\ pc = "await_batches"
    /\ completed # <<>>
    /\ screened' = screened \o tasks[Head(completed)].results
    /\ completed' = Tail(completed)
    /\ merged' = merged + 1
    /\ UNCHANGED <<mode, pc, filterVars, debtVars, splitVars, envVars, queried, tickers,
                   subset, passLog, tasks, screenOut, enrichVars, cycleVars>>

\* _screen returns once every batch is merged.  After the first pass an empty
\* result under a limit starts the second pass; otherwise the list is sorted.
EndPass ==
    /\ pc = "await_batches"
    /\ merged = Len(tasks)
    /\ passLog' = Append(passLog, [symbols |-> subset, found |-> Len(screened)])
    /\ pc' = IF passLog = <<>> /\ NeedsRetry(screened, limit)
               THEN "start_pass"
               ELSE "sort"
    /\ UNCHANGED <<mode, filterVars, debtVars, splitVars, envVars, queried, tickers,
                   subset, tasks, completed, merged, screened, screenOut,
                   enrichVars, cycleVars>>

\* The list is sorted by price and returned as plain records.
SortAndReturn ==
    /\ pc = "sort"
    /\ LET sorted == SortByPrice(screened)
       IN  screenOut' = [st |-> "returned",
                         value |-> [i \in 1..Len(sorted) |-> to_dict(sorted[i])]]
    /\ pc' = "screen_returned"
    /\ UNCHANGED <<mode, filterVars, debtVars, splitVars, envVars, queried, tickers,
                   subset, passLog, tasks, completed, merged, screened,
                   enrichVars, cycleVars>>

---------------------------------------------------------------------------
(* technicals.py: the Technical Enrichment Fetcher.                        *)

EXCHANGES == <<"NASDAQ", "NYSE", "AMEX">>

\* A mapping of the provider's analysis; a key it lacks reads as None (.get).
Summary(recommendation, oscillators, moving_averages) ==
    [RECOMMENDATION |-> recommendation, OSCILLATORS |-> oscillators,
     MOVING_AVERAGES |-> moving_averages]
Indicators(rsi, ema20, ema50, macd) ==
    [RSI |-> rsi, EMA20 |-> ema20, EMA50 |-> ema50, MACD |-> macd]

\* What handler.get_analysis() answers for a symbol on a venue when it does
\* not raise; a summary or indicators of None stand for a missing mapping.
Analysis(symbol, exchange) ==
    CASE exchange = "NASDAQ" ->
           [summary |-> Summary(Str("BUY"), Str("NEUTRAL"), Str("BUY")),
            indicators |-> Indicators(Num(100 + symbol), Num(40), Num(38), Num(1))]
      [] exchange = "NYSE" ->
           [summary |-> Summary(Str("SELL"), None, Str("SELL")),
            indicators |-> None]
      [] OTHER ->
           [summary |-> None,
            indicators |-> Indicators(Num(60), None, None, None)]

\* The snapshot _fetch_from_tradingview builds from an analysis.
Snapshot(symbol, analysis) ==
    LET indicators == IF analysis.indicators = None
                        THEN Indicators(None, None, None, None)
                        ELSE analysis.indicators
        summary == IF analysis.summary = None
                     THEN Summary(None, None, None)
                     ELSE analysis.summary
    IN  [ticker |-> symbol, rating |-> summary.RECOMMENDATION,
         oscillators |-> summary.OSCILLATORS,
         moving_averages |-> summary.MOVING_AVERAGES, rsi |-> indicators.RSI,
         ema20 |-> indicators.EMA20, ema50 |-> indicators.EMA50,
         macd |-> indicators.MACD]

\* A _fetch_from_tradingview call handed to the executor: `venue` is the index
\* of the exchange it tries next.
NewTechTask(symbol) ==
    [symbol |-> symbol, venue |-> 1, st |-> "pending", result |-> None]

\* The pool runs its tasks oldest first, MAX_WORKERS at a time.
HasWorker(i) ==
    Cardinality({o \in 1..(i - 1) : techTasks[o].st # "done"}) < MAX_WORKERS

\* The empty mapping {}.
EmptyMapping == <<>>

RECURSIVE MapLoop(_, _, _)
\* The loop that builds technical_map from the i-th result on.
MapLoop(tech_results, i, technical_map) ==
    IF i > Len(tech_results) THEN technical_map
    ELSE LET result == tech_results[i]
         IN  IF result = None
               THEN MapLoop(tech_results, i + 1, technical_map)
               ELSE MapLoop(tech_results, i + 1,
                            [t \in DOMAIN technical_map \cup {result.ticker} |->
                                IF t = result.ticker THEN result
                                ELSE technical_map[t]])

\* `technical_map.get(ticker, {})`
MapGet(technical_map, ticker) ==
    IF ticker \in DOMAIN technical_map THEN technical_map[ticker]
    ELSE EmptyMapping

MergeRecordInPlace(stock, technicals) ==
    LET same == [f \in DOMAIN stock \cup {"technicals"} |->
                    IF f = "technicals" THEN technicals ELSE stock[f]]
    IN  [merged |-> same, original |-> same]

\* `merged = stock.copy(); merged["technicals"] = ...`: the record appended,
\* and the caller's record as the two statements leave it.
MergeRecord(stock, technicals) ==
    [merged |-> [f \in DOMAIN stock \cup {"technicals"} |->
                    IF f = "technicals" THEN technicals ELSE stock[f]],
     original |-> stock]

\* enrich_with_technicals after the gather.
Enrich(records, tech_results) ==
    LET technical_map == MapLoop(tech_results, 1, <<>>)
    IN  [i \in 1..Len(records) |->
            MergeRecord(records[i], MapGet(technical_map, records[i].ticker))]

EnrichIdle ==
    /\ given = <<>>
    /\ fundamentals = <<>>
    /\ techTasks = <<>>
    /\ enrichOut = [st |-> "pending"]

\* enrich_with_technicals up to its await: one task per record.
StartEnrich ==
    /\ pc = "enrich_call"
    /\ techTasks' = [i \in 1..Len(fundamentals) |->
                        NewTechTask(fundamentals[i].ticker)]
    /\ pc' = "await_technicals"
    /\ UNCHANGED <<mode, filterVars, debtVars, splitVars, envVars, screenVars,
                   given, fundamentals, enrichOut, cycleVars>>

\* The venue a task tries answers: the task returns the snapshot.
VenueAnswers(i) ==
    /\ pc = "await_technicals"
    /\ techTasks[i].st = "pending"
    /\ HasWorker(i)
    /\ LET t == techTasks[i]
       IN  techTasks' = [techTasks EXCEPT ![i] =
              [t EXCEPT !.st = "done",
                        !.result = Snapshot(t.symbol,
                                            Analysis(t.symbol, EXCHANGES[t.venue]))]]
    /\ UNCHANGED <<mode, pc, filterVars, debtVars, splitVars, envVars, screenVars,
                   given, fundamentals, enrichOut, cycleVars>>

\* The venue a task tries raises: the task goes on to the next venue, and
\* returns None after the last.
VenueRaises(i) ==
    /\ pc = "await_technicals"
    /\ techTasks[i].st = "pending"
    /\ HasWorker(i)
    /\ LET t == techTasks[i]
       IN  techTasks' = [techTasks EXCEPT ![i] =
              IF t.venue < Len(EXCHANGES)
                THEN [t EXCEPT !.venue = t.venue + 1]
                ELSE [t EXCEPT !.st = "done", !.result = None]]
    /\ UNCHANGED <<mode, pc, filterVars, debtVars, splitVars, envVars, screenVars,
                   given, fundamentals, enrichOut, cycleVars>>

\* The gather completes: the map is built and every record merged.
Gather ==
    /\ pc = "await_technicals"
    /\ \A i \in DOMAIN techTasks : techTasks[i].st = "done"
    /\ LET tech_results == [i \in DOMAIN techTasks |-> techTasks[i].result]
           enriched == Enrich(fundamentals, tech_results)
       IN  /\ enrichOut' = [st |-> "returned",
                            value |-> [i \in DOMAIN enriched |-> enriched[i].merged]]
           /\ fundamentals' = [i \in DOMAIN enriched |-> enriched[i].original]
    /\ pc' = "enrich_returned"
    /\ UNCHANGED <<mode, filterVars, debtVars, splitVars, envVars, screenVars, given,
                   techTasks, cycleVars>>

---------------------------------------------------------------------------
(* main.py: the persisted history and the analysis cycle.                  *)

\* history.json, by what load_history meets when it reads it:
\*   Absent       the file does not exist
\*   Undecodable  read_text raises (UnicodeDecodeError: bytes that are no
\*                text in the locale's encoding)
\*   BeyondLimits json.loads raises an error that is no JSONDecodeError
\*                (ValueError: a number of more digits than the integer
\*                conversion limit; RecursionError: nesting too deep)
\*   Corrupt      json.loads raises JSONDecodeError
\*   NotAList     json.loads returns a value that is no list
\*   ListFile     json.loads returns a list
Absent == [kind |-> "absent"]
Undecodable == [kind |-> "undecodable"]
BeyondLimits == [kind |-> "beyond_limits"]
Corrupt == [kind |-> "corrupt"]
NotAList == [kind |-> "json"]
ListFile(symbols) == [kind |-> "list", symbols |-> symbols]

ensure_storage(file) == IF file = Absent THEN ListFile(<<>>) ELSE file

\* The errors of read_text and json.loads that `except json.JSONDecodeError`
\* does not catch.
LoadRaises(file) == file \in {Undecodable, BeyondLimits}

\* An error that is no JSONDecodeError leaves load_history; a JSONDecodeError
\* and a value that is no list give the empty list.
load_history(file) ==
    IF LoadRaises(file)
      THEN [st |-> "raised"]
      ELSE [st |-> "returned",
            value |-> IF file.kind = "list" THEN file.symbols ELSE <<>>]

Range(seq) == {seq[i] : i \in DOMAIN seq}

RECURSIVE Sorted(_)
\* `sorted(a_set)`
Sorted(set) ==
    IF set = {} THEN <<>>
    ELSE LET least == CHOOSE x \in set : \A y \in set : x <= y
         IN  <<least>> \o Sorted(set \ {least})

\* What save_history writes.
save_history(symbols) == ListFile(Sorted(Range(symbols)))

diff_symbols(previous, current) ==
    [new_symbols |-> Sorted(Range(current) \ Range(previous)),
     dropped_symbols |-> Sorted(Range(previous) \ Range(current))]

NoCandidatesUnchecked(records) == FALSE
\* `if not fundamentals: raise RuntimeError(...)`
NoCandidates(records) == records = <<>>

CycleIdle ==
    /\ histFile = Absent
    /\ reportFile = Absent
    /\ log = <<>>
    /\ cycleOut = "pending"
    /\ atStart = [histFile |-> Absent, reportFile |-> Absent]
    /\ symbolDiff = None
    /\ report_markdown = None

\* run_analysis_cycle up to its first await: ensure_storage, then the call of
\* screen_stocks.
StartCycle ==
    /\ pc = "cycle_call"
    /\ histFile' = ensure_storage(histFile)
    /\ log' = Append(log, "screen_stocks")
    /\ pc' = "load_tickers"
    /\ UNCHANGED <<mode, filterVars, debtVars, splitVars, envVars, screenVars, enrichVars,
                   reportFile, cycleOut, atStart, symbolDiff,
                   report_markdown>>

\* screen_stocks raised: the error leaves run_analysis_cycle.
ScreenFails ==
    /\ mode = "cycle"
    /\ pc = "screen_raised"
    /\ cycleOut' = "raised"
    /\ pc' = "cycle_raised"
    /\ UNCHANGED <<mode, filterVars, debtVars, splitVars, envVars, screenVars, enrichVars,
                   histFile, reportFile, log, atStart, symbolDiff,
                   report_markdown>>

\* screen_stocks returned: no candidate raises, otherwise the records go to
\* enrich_with_technicals.
AfterScreen ==
    /\ mode = "cycle"
    /\ pc = "screen_returned"
    /\ IF NoCandidates(screenOut.value)
         THEN /\ cycleOut' = "raised"
              /\ pc' = "cycle_raised"
              /\ UNCHANGED <<given, fundamentals, log>>
         ELSE /\ given' = screenOut.value
              /\ fundamentals' = screenOut.value
              /\ log' = Append(log, "enrich_with_technicals")
              /\ pc' = "enrich_call"
              /\ UNCHANGED cycleOut
    /\ UNCHANGED <<mode, filterVars, debtVars, splitVars, envVars, screenVars, techTasks,
                   enrichOut, histFile, reportFile, atStart, symbolDiff,
                   report_markdown>>

\* load_history, diff_symbols, save_history; when load_history raises the
\* error leaves run_analysis_cycle and nothing is written.
UpdateHistory ==
    /\ mode = "cycle"
    /\ pc = "enrich_returned"
    /\ LET current == [i \in DOMAIN enrichOut.value |-> enrichOut.value[i].ticker]
           prev == load_history(histFile)
       IN  IF prev.st = "raised"
             THEN /\ cycleOut' = "raised"
                  /\ pc' = "cycle_raised"
                  /\ UNCHANGED <<histFile, symbolDiff, log>>
             ELSE /\ symbolDiff' = diff_symbols(prev.value, current)
                  /\ histFile' = save_history(current)
                  /\ log' = Append(log, "save_history")
                  /\ pc' = "market_context"
                  /\ UNCHANGED cycleOut
    /\ UNCHANGED <<mode, filterVars, debtVars, splitVars, envVars, screenVars, enrichVars,
                   reportFile, atStart, report_markdown>>

\* fetch_market_context returns.
MarketContext ==
    /\ pc = "market_context"
    /\ log' = Append(log, "fetch_market_context")
    /\ pc' = "generate_report"
    /\ UNCHANGED <<mode, filterVars, debtVars, splitVars, envVars, screenVars, enrichVars,
                   histFile, reportFile, cycleOut, atStart, symbolDiff,
                   report_markdown>>

\* fetch_market_context raises (the provider is unreachable).
MarketContextFails ==
    /\ pc = "market_context"
    /\ log' = Append(log, "fetch_market_context")
    /\ cycleOut' = "raised"
    /\ pc' = "cycle_raised"
    /\ UNCHANGED <<mode, filterVars, debtVars, splitVars, envVars, screenVars, enrichVars,
                   histFile, reportFile, atStart, symbolDiff,
                   report_markdown>>

\* The text of a report on the given tickers; encodable says whether the
\* locale's encoding has every character of it.
ReportText(report_tickers, encodable) ==
    [kind |-> "text", tickers |-> report_tickers, encodable |-> encodable]

\* The report file after an open for writing that wrote nothing.
EmptyReport == [kind |-> "empty"]

\* generate_report returns the report's text (the text is the language
\* model's: it may hold characters the locale's encoding lacks).
GenerateReport ==
    /\ pc = "generate_report"
    /\ \E encodable \in BOOLEAN :
          report_markdown' =
            ReportText([i \in DOMAIN enrichOut.value |-> enrichOut.value[i].ticker],
                       encodable)
    /\ log' = Append(log, "generate_report")
    /\ pc' = "write_report"
    /\ UNCHANGED <<mode, filterVars, debtVars, splitVars, envVars, screenVars, enrichVars,
                   histFile, reportFile, cycleOut, atStart, symbolDiff>>

\* generate_report raises (no API key, or every model variant failed).
GenerateReportFails ==
    /\ pc = "generate_report"
    /\ log' = Append(log, "generate_report")
    /\ cycleOut' = "raised"
    /\ pc' = "cycle_raised"
    /\ UNCHANGED <<mode, filterVars, debtVars, splitVars, envVars, screenVars, enrichVars,
                   histFile, reportFile, atStart, symbolDiff,
                   report_markdown>>

\* report_path.write_text: the file is opened for writing (created or
\* truncated), the text encoded in the locale's encoding and written, and the
\* path returned; a text the encoding cannot take raises UnicodeEncodeError
\* and leaves the file empty.
WriteReport ==
    /\ pc = "write_report"
    /\ IF report_markdown.encodable
         THEN /\ reportFile' = [kind |-> "report",
                                tickers |-> report_markdown.tickers]
              /\ cycleOut' = "returned"
              /\ pc' = "cycle_returned"
         ELSE /\ reportFile' = EmptyReport
              /\ cycleOut' = "raised"
              /\ pc' = "cycle_raised"
    /\ log' = Append(log, "write_text")
    /\ UNCHANGED <<mode, filterVars, debtVars, splitVars, envVars, screenVars, enrichVars,
                   histFile, atStart, symbolDiff,
                   report_markdown>>

---------------------------------------------------------------------------
(* The inputs of the specifications.                                       *)

FilterIdle ==
    /\ fstock = None
    /\ fverdict = "unset"
    /\ debugMode = FALSE
    /\ debugLog = <<>>

DebtIdle ==
    /\ dinfo = None
    /\ dsheet = None
    /\ dratio = "unset"

SplitIdle ==
    /\ items = <<>>
    /\ split = <<>>

EnvIdle ==
    /\ wiki = Unreachable
    /\ datahub = Unreachable
    /\ limit = None

\* How many distinct tickers the provider knows.
NumTickers == 8

\* The longest universe: more than one batch.
MaxUniverse == 27

\* A universe of two batches: accepted tickers at the start of the first batch
\* (2, which may raise), at its end (3) and at the end of the second (1);
\* tickers that may raise at the second place of the first batch and at the
\* first of the second (6); the rejected ticker 4 everywhere else.
BigUniverse ==
    [i \in 1..MaxUniverse |->
        CASE i = 1 -> 2
          [] i = 2 -> 6
          [] i = BATCH_SIZE -> 3
          [] i = BATCH_SIZE + 1 -> 6
          [] i = MaxUniverse -> 1
          [] OTHER -> 4]

Universes ==
    {<<1, 4>>, <<1, 2, 3>>, <<4, 6, 8>>, <<4, 6, 7>>, <<1, 5, 1>>, BigUniverse}

Rotate(seq) == IF seq = <<>> THEN seq ELSE Append(Tail(seq), Head(seq))

\* The listing page: unreachable, rejected by the parser, without the table,
\* a table of header rows only, or a header row and one row per symbol.
PrimarySources(universe) ==
    {Unreachable, Rejected, NoTable, Page(<<0>>), Page(<<0>> \o universe)}

\* The CSV feed: unreachable, unparseable, without rows, or one row per
\* symbol.
SecondarySources(universe) ==
    {Unreachable, Unparseable, Page(<<>>), Page(universe)}

Limits == {None, IntV(0), IntV(1), IntV(2), IntV(0 - 1), IntV(BATCH_SIZE + 1)}

---------------------------------------------------------------------------
(* The Filter Evaluator on its own: every combination of field values      *)
(* around the thresholds.                                                  *)

\* How far (in units of 1/Unit) around each threshold the field values range.
Margin == 1

Around(t) == {Num(t + d) : d \in (0 - Margin)..Margin}

PEValues == {None, NaN} \cup Around(0) \cup Around(PE_MAX * Unit)
PBValues == {None, NaN} \cup Around(0) \cup Around(PB_MAX * Unit)
CRValues == {None, NaN} \cup Around(CURRENT_RATIO_MIN)
DAValues == {None, NaN} \cup Around(DEBT_TO_ASSETS_MAX * Unit)
PriceValues == {None, NaN} \cup Around(PRICE_MIN * Unit) \cup Around(PRICE_MAX * Unit)

InitFilter ==
    /\ mode = "filter"
    /\ pc = "call"
    /\ \E p \in PriceValues, pe \in PEValues, pb \in PBValues,
          cr \in CRValues, da \in DAValues :
          fstock = ScreenedStock(1, None, None, p, pe, pb, cr, da, None, None)
    /\ fverdict = "unset"
    /\ debugMode \in BOOLEAN
    /\ debugLog = <<>>
    /\ SplitIdle /\ EnvIdle /\ ScreenIdle /\ EnrichIdle /\ CycleIdle /\ DebtIdle

PassesFilters ==
    /\ mode = "filter"
    /\ pc = "call"
    /\ fverdict' = _passes_filters(fstock)
    /\ debugLog' = IF debugMode THEN <<_debug_stock_eval(fstock)>> ELSE <<>>
    /\ pc' = "returned"
    /\ UNCHANGED <<mode, fstock, debugMode, debtVars, splitVars, envVars, screenVars,
                   enrichVars, cycleVars>>

NextFilter == PassesFilters

SpecFilter == InitFilter /\ [][NextFilter]_vars

---------------------------------------------------------------------------
(* The partition on its own: symbol sequences of every length up to        *)
(* MaxItems, with and without repeated symbols.                            *)

MaxItems == 60

SplitInputs ==
    {[i \in 1..n |-> (((i - 1) * stride) % NumTickers) + 1] :
        n \in 0..MaxItems, stride \in 0..2}

InitSplit ==
    /\ mode = "split"
    /\ pc = "call"
    /\ items \in SplitInputs
    /\ split = <<>>
    /\ FilterIdle /\ EnvIdle /\ ScreenIdle /\ EnrichIdle /\ CycleIdle /\ DebtIdle

SplitBatches ==
    /\ mode = "split"
    /\ pc = "call"
    /\ split' = _split_batches(items, BATCH_SIZE)
    /\ pc' = "returned"
    /\ UNCHANGED <<mode, items, filterVars, debtVars, envVars, screenVars, enrichVars,
                   cycleVars>>

NextSplit == SplitBatches

SpecSplit == InitSplit /\ [][NextSplit]_vars

---------------------------------------------------------------------------
(* screen_stocks on its own.                                               *)

InitScreen ==
    /\ mode = "screen"
    /\ pc = "load_tickers"
    /\ \E universe \in Universes :
          /\ wiki \in PrimarySources(universe)
          /\ datahub \in SecondarySources(Rotate(universe))
    /\ limit \in Limits
    /\ FilterIdle /\ SplitIdle /\ ScreenIdle /\ EnrichIdle /\ CycleIdle /\ DebtIdle

NextScreen ==
    \/ LoadTickers
    \/ StartPass
    \/ \E b \in DOMAIN tasks : StartBatch(b)
    \/ \E b \in DOMAIN tasks : AttemptReturns(b)
    \/ \E b \in DOMAIN tasks : AttemptRaises(b)
    \/ \E b \in DOMAIN tasks : BatchReturns(b)
    \/ MergeBatch
    \/ EndPass
    \/ SortAndReturn

SpecScreen == InitScreen /\ [][NextScreen]_vars

---------------------------------------------------------------------------
(* enrich_with_technicals on its own: every list of up to MaxRecords       *)
(* records, with repeated tickers and with a field named technicals.       *)

MaxRecords == 3

EnrichRecords ==
    {[ticker |-> 1, price |-> Num(100)],
     [ticker |-> 1, price |-> Num(40)],
     [ticker |-> 2, price |-> Num(20), technicals |-> Str("stale")]}

RECURSIVE ListsUpTo(_, _)
ListsUpTo(set, n) ==
    IF n = 0 THEN {<<>>}
    ELSE LET shorter == ListsUpTo(set, n - 1)
         IN  shorter \cup {Append(l, x) : l \in {m \in shorter : Len(m) = n - 1},
                                          x \in set}

InitEnrich ==
    /\ mode = "enrich"
    /\ pc = "enrich_call"
    /\ given \in ListsUpTo(EnrichRecords, MaxRecords)
    /\ fundamentals = given
    /\ techTasks = <<>>
    /\ enrichOut = [st |-> "pending"]
    /\ FilterIdle /\ SplitIdle /\ EnvIdle /\ ScreenIdle /\ CycleIdle /\ DebtIdle

NextEnrich ==
    \/ StartEnrich
    \/ \E i \in DOMAIN techTasks : VenueAnswers(i)
    \/ \E i \in DOMAIN techTasks : VenueRaises(i)
    \/ Gather

SpecEnrich == InitEnrich /\ [][NextEnrich]_vars

---------------------------------------------------------------------------
(* One analysis cycle (run_analysis_cycle), over the universes of a single *)
(* batch.                                                                  *)

CycleUniverses == Universes \ {BigUniverse}

CycleLimits == {None, IntV(1)}

HistoryFiles ==
    {Absent, Undecodable, BeyondLimits, Corrupt, NotAList, ListFile(<<1, 7>>)}

InitCycle ==
    /\ mode = "cycle"
    /\ pc = "cycle_call"
    /\ \E universe \in CycleUniverses :
          /\ wiki \in PrimarySources(universe)
          /\ datahub \in SecondarySources(Rotate(universe))
    /\ limit \in CycleLimits
    /\ histFile \in HistoryFiles
    /\ reportFile \in {Absent, [kind |-> "report", tickers |-> <<7>>]}
    /\ log = <<>>
    /\ cycleOut = "pending"
    /\ atStart = [histFile |-> histFile, reportFile |-> reportFile]
    /\ symbolDiff = None
    /\ report_markdown = None
    /\ FilterIdle /\ SplitIdle /\ ScreenIdle /\ EnrichIdle /\ DebtIdle

NextCycle ==
    \/ StartCycle
    \/ NextScreen
    \/ ScreenFails
    \/ AfterScreen
    \/ NextEnrich
    \/ UpdateHistory
    \/ MarketContext
    \/ MarketContextFails
    \/ GenerateReport
    \/ GenerateReportFails
    \/ WriteReport

SpecCycle == InitCycle /\ [][NextCycle]_vars

---------------------------------------------------------------------------
(* _compute_debt_to_assets on its own: every combination of the two        *)
(* operands on the info record and on the balance sheet.                   *)

\* The largest total debt, in whole units.
MaxDebt == 2

\* Total debt: whole amounts from 0 up.
DebtAmounts == {Whole(n) : n \in 0..MaxDebt}
\* Total assets: 0, 1.0 and 2.0, so that every quotient is a number of halves.
AssetAmounts == {Whole(0), Whole(1), Whole(2)}

\* info.get(key): None when the key is missing, else its value.
InfoDebts == {None} \cup DebtAmounts
InfoAssets == {None} \cup AssetAmounts

\* ticker_obj.balance_sheet: None or empty, or a sheet in which each of the
\* two line items is missing, NaN or an amount.
DebtSheets ==
    {NoSheet} \cup
    {Sheet(Missing, Missing, ta, td) :
        ta \in {Missing, NaN} \cup AssetAmounts,
        td \in {Missing, NaN} \cup DebtAmounts}

InitDebt ==
    /\ mode = "debt"
    /\ pc = "call"
    /\ \E td \in InfoDebts, ta \in InfoAssets :
          dinfo = InfoRec(None, None, None, None, None, None, td, ta, None,
                          None, None, None, None)
    /\ dsheet \in DebtSheets
    /\ dratio = "unset"
    /\ FilterIdle /\ SplitIdle /\ EnvIdle /\ ScreenIdle /\ EnrichIdle /\ CycleIdle

ComputeDebtToAssets ==
    /\ mode = "debt"
    /\ pc = "call"
    /\ dratio' = _compute_debt_to_assets(dinfo, dsheet)
    /\ pc' = "returned"
    /\ UNCHANGED <<mode, dinfo, dsheet, filterVars, splitVars, envVars,
                   screenVars, enrichVars, cycleVars>>

NextDebt == ComputeDebtToAssets

SpecDebt == InitDebt /\ [][NextDebt]_vars

---------------------------------------------------------------------------
(* The claims.                                                             *)

\* How often x occurs in seq.
Count(seq, x) == Cardinality({i \in DOMAIN seq : seq[i] = x})

RECURSIVE Flatten(_)
\* The concatenation of a sequence of sequences.
Flatten(seqs) == IF seqs = <<>> THEN <<>> ELSE Head(seqs) \o Flatten(Tail(seqs))

\* The five thresholds as the specification states them, on a stock or on the
\* record made of it: an absent field, and a field that is no number,
\* satisfies none.
MeetsThresholds(stock) ==
    /\ FLt(Num(0), stock.trailing_pe) /\ FLe(stock.trailing_pe, Whole(PE_MAX))
    /\ FLt(Num(0), stock.price_to_book) /\ FLe(stock.price_to_book, Whole(PB_MAX))
    /\ FGe(stock.current_ratio, Num(CURRENT_RATIO_MIN))
    /\ FLe(stock.debt_to_assets, Whole(DEBT_TO_ASSETS_MAX))
    /\ FLe(Whole(PRICE_MIN), stock.price) /\ FLe(stock.price, Whole(PRICE_MAX))

FilterFields == {"trailing_pe", "price_to_book", "current_ratio", "debt_to_assets", "price"}

FilterReturned == mode = "filter" /\ pc = "returned"

\* C1: _passes_filters accepts a stock if and only if all five thresholds
\* hold (0 < P/E <= 15, 0 < P/B <= 2, current ratio >= 1.5, debt-to-assets
\* <= 1.0, 10 <= price <= 100); in particular a stock with an absent field or
\* with P/E <= 0 is rejected.
C1_AcceptsIffAllThresholdsHold ==
    FilterReturned =>
        /\ fverdict <=> MeetsThresholds(fstock)
        /\ (\E f \in FilterFields : IsNone(fstock[f])) => ~fverdict
        /\ FLe(fstock.trailing_pe, Num(0)) => ~fverdict

\* C1, on the stocks whose five fields are each absent or a number: the
\* equivalence holds there; it fails only for a current ratio or a
\* debt-to-assets value that is NaN.
C1_HoldsWithoutNaN ==
    (FilterReturned /\ \A f \in FilterFields : fstock[f] # NaN) =>
        (fverdict <=> MeetsThresholds(fstock))

\* C1: the diagnostic of _debug_stock_eval and the verdict agree: the stock is
\* accepted if and only if every logged check is OK.
C1_DebugAgreesWithVerdict ==
    (FilterReturned /\ debugMode) =>
        (fverdict <=> \A c \in DOMAIN debugLog[1] : debugLog[1][c])

SplitReturned == mode = "split" /\ pc = "returned"

\* C10: the batches of _split_batches(items, 25) concatenate to items; every
\* batch but the last has 25 symbols, the last between 1 and 25; no items, no
\* batch; 60 items give batches of 25, 25 and 10.
C10_BatchesPartitionTheInput ==
    SplitReturned =>
        /\ Flatten(split) = items
        /\ \A j \in 1..(Len(split) - 1) : Len(split[j]) = 25
        /\ split # <<>> => Len(split[Len(split)]) \in 1..25
        /\ items = <<>> => split = <<>>
        /\ Len(items) = 60 =>
              [j \in DOMAIN split |-> Len(split[j])] = <<25, 25, 10>>

\* C10's case: 60 symbols were split, into three batches.
C10_Witness == SplitReturned /\ Len(items) = 60 /\ Len(split) = 3

---------------------------------------------------------------------------
(* Claims about screen_stocks.                                             *)

ScreenReturned == screenOut.st = "returned"

\* The symbol occurrences of the pass: <<batch, position in the batch>>.
Occurrences ==
    UNION {{<<b, i>> : i \in 1..Len(tasks[b].symbols)} : b \in DOMAIN tasks}

SymbolAt(o) == tasks[o[1]].symbols[o[2]]

\* The record of the stock the provider's data gives for an occurrence.
RecordAt(o) ==
    to_dict(BuildStock(SymbolAt(o), Info(SymbolAt(o)), BalanceSheet(SymbolAt(o))))

\* The occurrence's _fetch_single call returned (it did not raise out of its
\* retries).
FetchSucceeded(o) == o[2] <= tasks[o[1]].done /\ o[2] \notin tasks[o[1]].skipped

AllRecords == {RecordAt(o) : o \in Occurrences} \cup Range(screenOut.value)

\* C2: the records screen_stocks returns are exactly those of the symbol
\* occurrences of the screened universe whose fetch succeeded and whose
\* metrics meet every threshold, each as often as it occurs: none that fails
\* a threshold or lacks a filtered field, none lost, none duplicated.
C2_ReturnsExactlyTheStocksMeetingThresholds ==
    ScreenReturned =>
        /\ Flatten([b \in DOMAIN tasks |-> tasks[b].symbols]) = subset
        /\ \A r \in Range(screenOut.value) : MeetsThresholds(r)
        /\ \A r \in AllRecords :
              Count(screenOut.value, r) =
                Cardinality({o \in Occurrences :
                               /\ FetchSucceeded(o)
                               /\ MeetsThresholds(RecordAt(o))
                               /\ RecordAt(o) = r})

\* C3: a symbol whose fetch raised out of its retries is left out and stops
\* nothing: in the pass that is returned every symbol of every batch was
\* fetched, and the records returned are those of the occurrences whose fetch
\* did not fail and whose stock the filter accepts, each as often as it occurs.
C3_FailedSymbolIsSkippedOthersReturned ==
    ScreenReturned =>
        /\ \A b \in DOMAIN tasks : tasks[b].done = Len(tasks[b].symbols)
        /\ \A r \in AllRecords :
              Count(screenOut.value, r) =
                Cardinality({o \in Occurrences :
                               /\ FetchSucceeded(o)
                               /\ FetchReturn(SymbolAt(o), Info(SymbolAt(o)),
                                              BalanceSheet(SymbolAt(o))) # None
                               /\ RecordAt(o) = r})

\* C3's case: in a pass of two batches the fetch of a symbol in the middle of
\* the first batch failed, and the accepted symbols before and after it and
\* the accepted symbol of the other batch are all returned.
C3_Witness ==
    /\ ScreenReturned
    /\ Len(tasks) = 2
    /\ \E i \in tasks[1].skipped :
          /\ \E h \in 1..(i - 1) : Count(screenOut.value, RecordAt(<<1, h>>)) > 0
          /\ \E j \in (i + 1)..Len(tasks[1].symbols) :
                Count(screenOut.value, RecordAt(<<1, j>>)) > 0
    /\ \E j \in 1..Len(tasks[2].symbols) :
          Count(screenOut.value, RecordAt(<<2, j>>)) > 0

\* C4: a _fetch_single call makes at most 3 attempts: every attempt that was
\* followed by another one raised, and fewer than 3 had been made; an attempt
\* that returns ends the call; a call that ended raising made 3 attempts, and
\* its symbol is skipped: nothing of it is in the batch's results.
C4_AtMostThreeAttempts ==
    \A b \in DOMAIN tasks :
        LET t == tasks[b]
            n == Len(t.trace)
        IN  /\ n <= 3
            /\ \A k \in 1..(n - 1) : t.trace[k] = "raised"
            /\ t.calling => n \in 1..2 /\ t.trace[n] = "raised"
            /\ (~t.calling /\ n > 0) =>
                  /\ t.trace[n] = "raised" => n = 3 /\ t.done \in t.skipped
                  /\ t.trace[n] # "raised" => t.done \notin t.skipped
                  /\ t.trace[n] = "accepted" =>
                        t.results # <<>>
                        /\ t.results[Len(t.results)].ticker = t.symbols[t.done]
            /\ Len(t.results) + Cardinality(t.skipped) <= t.done

\* C4's case: a call ended by its third attempt raising, its symbol skipped,
\* and the batch went on to fetch the next symbol.
C4_Witness ==
    \E b \in DOMAIN tasks :
        /\ tasks[b].skipped # {}
        /\ tasks[b].trace \in {<<"raised", "accepted">>, <<"raised", "raised", "rejected">>}
        /\ tasks[b].done > 1

\* The passes run so far, the running one included.
PassesStarted == Len(passLog) + (IF pc = "await_batches" THEN 1 ELSE 0)

\* C5: with a limit, a first pass over tickers[:limit] that finds nothing is
\* followed by exactly one pass over the whole universe, whose result is
\* returned, empty or not; without a limit, or when the first pass finds a
\* candidate, one pass runs.  Never more than two.
C5_OneRetryOverTheFullUniverse ==
    /\ PassesStarted <= 2
    /\ ScreenReturned =>
          /\ passLog[1].symbols = LimitedSubset(tickers, limit)
          /\ Len(screenOut.value) = passLog[Len(passLog)].found
          /\ Range(screenOut.value) = {to_dict(screened[i]) : i \in DOMAIN screened}
          /\ IF Truthy(limit) /\ passLog[1].found = 0
               THEN /\ Len(passLog) = 2
                    /\ passLog[1].symbols = SliceTo(tickers, limit.v)
                    /\ passLog[2].symbols = tickers
                    /\ subset = tickers
               ELSE Len(passLog) = 1

\* C5's case: the limited pass found nothing and the second pass, over the
\* whole universe, found a candidate that the limit had cut off.
C5_Witness ==
    /\ ScreenReturned
    /\ Len(passLog) = 2
    /\ Len(passLog[1].symbols) < Len(tickers)
    /\ screenOut.value # <<>>

\* The symbols the primary source yields.
PrimaryYield == IF wiki.kind = "page" THEN Symbols(wiki.cells) ELSE <<>>
SecondaryYield == IF datahub.kind = "page" THEN Symbols(datahub.cells) ELSE <<>>

\* The resolver was called and is over.
Resolved == pc # "load_tickers" /\ mode \in {"screen", "cycle"} /\ queried # <<>>

\* The resolver raised: its error is the one that left screen_stocks.
ResolverRaised == screenOut.st = "raised" /\ screenOut.error # "RuntimeError"

ResolverClaim ==
    /\ PrimaryYield # <<>> =>
          tickers = PrimaryYield /\ queried = <<"wikipedia">>
    /\ PrimaryYield = <<>> =>
          tickers = SecondaryYield /\ queried = <<"wikipedia", "datahub">>
    /\ ~ResolverRaised
    /\ (PrimaryYield = <<>> /\ SecondaryYield = <<>>) =>
          /\ screenOut = [st |-> "raised", error |-> "RuntimeError"]
          /\ tasks = <<>> /\ passLog = <<>> /\ screened = <<>>
    /\ tickers # <<>> => screenOut.st # "raised"

\* C6: once the universe is resolved: if the primary source yields a symbol,
\* its symbols are the universe and the secondary source was not requested;
\* otherwise (unreachable, no table, no rows) the secondary was requested once
\* and its symbols are the universe; the resolver never raises: if both
\* sources fail it returns the empty sequence, and screen_stocks then raises
\* its fatal error (RuntimeError) and no symbol was fetched.
C6_SecondarySourceOnlyOnPrimaryFailure ==
    Resolved => ResolverClaim

\* C6, on the answers the parsers can read (and on unreachable sources):
\* there the resolver does as the claim says.
C6_HoldsWhenTheSourcesParse ==
    (Resolved /\ wiki # Rejected /\ datahub # Unparseable) => ResolverClaim

\* C6's failing case: the primary source is unreachable, the feed cannot be
\* parsed, and the reader's error left the resolver and screen_stocks.
C6_ResolverRaises ==
    /\ wiki = Unreachable
    /\ datahub = Unparseable
    /\ queried = <<"wikipedia", "datahub">>
    /\ screenOut = [st |-> "raised", error |-> "csv.Error"]

\* C6's other failing case: the parser rejected the listing page, and its
\* error left the resolver before the secondary source was requested.
C6_PrimaryParserRaises ==
    /\ wiki = Rejected
    /\ queried = <<"wikipedia">>
    /\ screenOut = [st |-> "raised", error |-> "ParserRejectedMarkup"]

\* C6's case: the primary source had the table but no symbol row, and the
\* universe came from the secondary source.
C6_Witness ==
    /\ wiki = Page(<<0>>)
    /\ queried = <<"wikipedia", "datahub">>
    /\ tickers # <<>>
    /\ ScreenReturned

\* C9: the list screen_stocks returns is in non-increasing order of price (a
\* missing price counting as zero), however the batches completed; the stocks
\* with prices 50, 10 and 100 come back as 100, 50, 10.
C9_ReturnedInPriceDescendingOrder ==
    ScreenReturned =>
        /\ \A i \in 1..(Len(screenOut.value) - 1) :
              FGe(SortKey(screenOut.value[i]), SortKey(screenOut.value[i + 1]))
        /\ [i \in DOMAIN screened |-> screened[i].price] = <<Whole(50), Whole(10), Whole(100)>>
              => [i \in DOMAIN screenOut.value |-> screenOut.value[i].price]
                   = <<Whole(100), Whole(50), Whole(10)>>

\* C9's case: the second batch completed first, so the merged list was out of
\* order (10, 50, 100 among its prices), and three stocks were returned.
C9_Witness ==
    /\ ScreenReturned
    /\ Len(tasks) = 2
    /\ Len(screened) >= 3
    /\ screened[1].ticker = 1
    /\ FLt(screened[1].price, screened[Len(screened)].price)

\* C9's example: the stocks of prices 50, 10 and 100 were screened in that
\* order.
C9_Example ==
    /\ ScreenReturned
    /\ [i \in DOMAIN screened |-> screened[i].price] = <<Whole(50), Whole(10), Whole(100)>>

---------------------------------------------------------------------------
(* Claims about enrich_with_technicals and run_analysis_cycle.             *)

EnrichReturned == enrichOut.st = "returned"

\* The tasks of a ticker whose call returned a snapshot.
Answered(ticker) ==
    {j \in DOMAIN techTasks :
        techTasks[j].symbol = ticker /\ techTasks[j].result # None}

\* C7: enrich_with_technicals always returns (it raises for no pattern of
\* venue failures): a list as long as its input, whose i-th record is the i-th
\* input record with the field technicals set: to the snapshot fetched for the
\* record's ticker (from the first of NASDAQ, NYSE, AMEX that answered; the
\* last record's fetch when several records share the ticker) when a venue
\* answered, to the empty mapping when all three venues failed.  The input
\* list is left as it was.
C7_EveryRecordCopiedWithItsTechnicals ==
    /\ (mode = "enrich" /\ ~EnrichReturned) => ENABLED NextEnrich
    /\ \A j \in DOMAIN techTasks :
          /\ techTasks[j].venue \in 1..3
          /\ techTasks[j].result # None =>
                techTasks[j].result =
                  Snapshot(given[j].ticker,
                           Analysis(given[j].ticker, EXCHANGES[techTasks[j].venue]))
          /\ (techTasks[j].st = "done" /\ techTasks[j].result = None) =>
                techTasks[j].venue = 3
    /\ EnrichReturned =>
          /\ fundamentals = given
          /\ Len(enrichOut.value) = Len(given)
          /\ \A i \in DOMAIN given :
                LET out == enrichOut.value[i]
                    hits == Answered(given[i].ticker)
                IN  /\ DOMAIN out = DOMAIN given[i] \cup {"technicals"}
                    /\ \A f \in DOMAIN given[i] \ {"technicals"} : out[f] = given[i][f]
                    /\ hits # {} =>
                          out.technicals =
                            techTasks[CHOOSE j \in hits : \A h \in hits : h <= j].result
                    /\ hits = {} => out.technicals = EmptyMapping

\* C7's case: of three records one got the snapshot of the third venue (the
\* first two raised) and another the empty mapping (all three raised).
C7_Witness ==
    /\ mode = "enrich"
    /\ EnrichReturned
    /\ Len(given) = 3
    /\ \E i \in DOMAIN given :
          /\ techTasks[i].result = None
          /\ enrichOut.value[i].technicals = EmptyMapping
    /\ \E i \in DOMAIN given :
          /\ techTasks[i].venue = 3
          /\ techTasks[i].result # None
          /\ enrichOut.value[i].technicals = techTasks[i].result

\* No universe could be resolved, or the screener returned no candidate.
SystemicFailure ==
    \/ screenOut.st = "raised"
    \/ screenOut.st = "returned" /\ screenOut.value = <<>>

\* C8: in a cycle with a systemic failure run_analysis_cycle raises, and
\* nothing of the later steps happens: no technical enrichment, no report
\* generation, no report file written.
C8_SystemicFailureAbortsBeforeReport ==
    (mode = "cycle" /\ SystemicFailure) =>
        /\ pc \in {"screen_raised", "screen_returned", "cycle_raised"}
        /\ pc # "cycle_raised" => ENABLED (ScreenFails \/ AfterScreen)
        /\ pc = "cycle_raised" => cycleOut = "raised"
        /\ Range(log) \cap {"enrich_with_technicals", "generate_report", "write_text"} = {}
        /\ techTasks = <<>>
        /\ enrichOut.st = "pending"
        /\ reportFile = atStart.reportFile

\* C8's case: the screener returned no candidate and the cycle raised.
C8_Witness ==
    /\ mode = "cycle"
    /\ cycleOut = "raised"
    /\ screenOut.st = "returned"
    /\ screenOut.value = <<>>

\* C8's other case: no universe could be resolved and the cycle raised.
C8_NoUniverse ==
    /\ mode = "cycle"
    /\ cycleOut = "raised"
    /\ screenOut.st = "raised"

---------------------------------------------------------------------------
(* Claims about _compute_debt_to_assets.                                   *)

DebtReturned == mode = "debt" /\ pc = "returned"

\* The balance sheet's latest value of a line item, Missing without a sheet.
SheetItem(sheet, item) == IF sheet.usable THEN sheet[item] ELSE Missing

\* An operand as the claim resolves it: the info record's value when the key
\* is present there, otherwise the balance sheet's line item, otherwise
\* nothing.
OperandAvailable(infoValue, item) ==
    IF ~IsNone(infoValue) THEN infoValue
    ELSE IF item # Missing THEN item
    ELSE None

\* q is the float quotient d / a (NaN as soon as an operand is NaN).
IsQuotient(q, d, a) ==
    IF IsNum(d) /\ IsNum(a)
      THEN IsNum(q) /\ q.v * a.v = d.v * Unit
      ELSE q = NaN

DebtClaim ==
    LET debt == OperandAvailable(dinfo.totalDebt, SheetItem(dsheet, "total_debt"))
        assets == OperandAvailable(dinfo.totalAssets, SheetItem(dsheet, "total_assets"))
        absent == IsNone(assets) \/ assets = Num(0) \/ IsNone(debt)
    IN  /\ IsNone(dratio) <=> absent
        /\ ~absent => IsQuotient(dratio, debt, assets)

\* C11: the debt-to-assets value is total debt / total assets, each operand
\* taken from the info record when present there and otherwise from the
\* balance sheet; it is absent exactly when total assets are zero or nothing
\* or total debt is available from neither source, and otherwise it is
\* present and equals the quotient.
C11_DebtToAssetsIsTheQuotientOfTheAvailableOperands ==
    DebtReturned => DebtClaim

\* C11, on the info records on which neither operand is a zero: there the
\* value is as the claim says, for every balance sheet.
C11_HoldsWithoutZeroOnTheInfoRecord ==
    (DebtReturned /\ dinfo.totalDebt # Num(0) /\ dinfo.totalAssets # Num(0))
        => DebtClaim

\* C11's failing case: the info record says total debt 0 and total assets
\* 1.0, the balance sheet has no total-debt line, and the value is absent.
C11_DebtFreeIsAbsent ==
    /\ DebtReturned
    /\ dinfo.totalDebt = Num(0)
    /\ dinfo.totalAssets = Whole(1)
    /\ dsheet.usable
    /\ dsheet.total_debt = Missing
    /\ IsNone(dratio)

---------------------------------------------------------------------------
(* Claims about the persisted history.                                     *)

\* The history file as the cycle found it, once ensure_storage has created
\* the file that was not there.
HistoryAtStart == ensure_storage(atStart.histFile)

\* The tickers of the candidates the cycle reports on.
CandidateTickers ==
    [i \in DOMAIN enrichOut.value |-> enrichOut.value[i].ticker]

\* C12: the history is read before it is overwritten, and it is overwritten,
\* with the sorted, deduplicated tickers of the current candidates, only in a
\* cycle that completes and writes its report: a cycle that raised at any
\* step before its report file is written, a failure of report generation
\* included, leaves the history file as it was.
C12_HistoryOverwrittenOnlyByACompletedCycle ==
    mode = "cycle" =>
        /\ cycleOut = "raised" => histFile = HistoryAtStart
        /\ cycleOut = "returned" =>
              /\ histFile = ListFile(Sorted(Range(CandidateTickers)))
              /\ symbolDiff =
                    diff_symbols(load_history(HistoryAtStart).value, CandidateTickers)

\* C12, on the cycles that raised before save_history ran, and on the cycles
\* that completed: there the history is as the claim says.
C12_HoldsUpToSaveHistory ==
    mode = "cycle" =>
        /\ (cycleOut = "raised" /\ "save_history" \notin Range(log)) =>
              histFile = HistoryAtStart
        /\ cycleOut = "returned" =>
              /\ histFile = ListFile(Sorted(Range(CandidateTickers)))
              /\ symbolDiff =
                    diff_symbols(load_history(HistoryAtStart).value, CandidateTickers)

\* C12's failing case: report generation raised, no report was written, and
\* the history file is no longer what the cycle found.
C12_HistoryOverwrittenWithoutReport ==
    /\ mode = "cycle"
    /\ cycleOut = "raised"
    /\ log[Len(log)] = "generate_report"
    /\ reportFile = atStart.reportFile
    /\ atStart.histFile = ListFile(<<1, 7>>)
    /\ histFile # atStart.histFile

=============================================================================
